---- MODULE Spec2Model ----
(***************************************************************************)
(* PocketPlanner: streak evaluation (StreakTracker component, StreakScreen)*)
(* and deadline reminder scheduling (notification service).                *)
(*                                                                         *)
(* Calendar days are integers; the day string produced by toDateString()   *)
(* for day d is the record [fmt |-> "long", day |-> d]; the empty string   *)
(* used for "no date" in StreakData is EmptyDate.  Instants of the         *)
(* notification service are milliseconds.                                  *)
(***************************************************************************)
EXTENDS Integers, FiniteSets, Sequences, TLC

\* ------------------------------------------------------------------ bounds
MaxDay == 3
MaxTasks == 2

\* --------------------------------------------------------------- constants
EmptyDate == -1

VARIABLES
  day,              \* the real calendar day (new Date())
  tasksStore,       \* storage key 'tasks': [present, items]
  nextTaskId,       \* the id Date.now() gives the next task (ids grow with time)
  streakStore,      \* storage key 'streakData': [present, data]
  trackerMountDay,  \* StreakTracker: `today` of its first render (EmptyDate = not mounted)
  trackerState,     \* StreakTracker: React state streakData
  screenMountDay,   \* StreakScreen: `today` of its first render (EmptyDate = not mounted)
  screenRenderDay,  \* StreakScreen: `today` of its latest render
  screenState,      \* StreakScreen: React state streakData
  evals,            \* StreakTracker effect invocations of checkAndUpdateStreak awaiting getItem('tasks')
  evalWrote,        \* history: the evaluator has written 'streakData' on the current day
  quiet,            \* history: the evaluator has written today; no task change or manual reset since
  clock,            \* notification service: the current instant (ms)
  platformSupported,\* !(isExpoGo() || isWebPlatform() || !Device.isDevice)
  settingsStore,    \* storage key 'notification_settings': [present, preStartMinutes]
  notifStore,       \* storage key 'scheduled_notifications' (records as JSON holds them)
  pendingAlerts,    \* handles of the alerts the platform scheduler holds
  nextHandle,       \* the next handle the platform scheduler hands out
  schedPc,          \* scheduleTaskNotifications: the await it is suspended at
  schedArgs,        \* scheduleTaskNotifications: its arguments
  schedReminder,    \* scheduleTaskNotifications: local reminderMinutes
  schedNow,         \* scheduleTaskNotifications: local now
  schedRead,        \* scheduleTaskNotifications: the list getScheduledNotifications returned
  schedPushed,      \* scheduleTaskNotifications: the records pushed onto that list
  schedLog          \* history: requests of the current call to the platform scheduler

VARIABLES
  scorerTasks,        \* SmartTaskSuggestions: the tasks prop
  todayEnergyLevel,   \* SmartTaskSuggestions: React state todayEnergyLevel
  currentTimeContext, \* SmartTaskSuggestions: React state currentTimeContext
  suggestedTasks      \* SmartTaskSuggestions: React state suggestedTasks

VARIABLES
  logDay,             \* DailyEnergyTracker: the calendar day (UTC) of new Date()
  energyLogStore,     \* storage key 'dailyEnergyLog' (absent = empty list)
  selectedEnergy,     \* DailyEnergyTracker: React state selectedEnergy (0 = null)
  todayLogged         \* DailyEnergyTracker: React state todayLogged

VARIABLES
  newTimeBlock,       \* TasksScreen: React state newTimeBlock (the form)
  timeBlocksStore,    \* storage key 'timeBlocks' (absent = empty list)
  timeBlocks,         \* TasksScreen: React state timeBlocks
  blockAlert          \* the message of the last Alert.alert of addTimeBlock

VARIABLES
  screenTasks,        \* TasksScreen: React state tasks (the list on screen)
  taskScreenToday     \* TasksScreen: `today` of its first render (-1 = not mounted)

VARIABLES
  deletedTasks,       \* history: the ids of the tasks deleteTask has deleted
  deletedHandles      \* history: the handles recorded for them when they were deleted

VARIABLES
  timeLeft,           \* TimerScreen: React state timeLeft (seconds)
  isActive,           \* TimerScreen: React state isActive
  isBreak,            \* TimerScreen: React state isBreak
  sessionsCompleted,  \* TimerScreen: React state sessionsCompleted
  focusTime,          \* TimerScreen: React state focusTime (minutes)
  breakTime,          \* TimerScreen: React state breakTime (minutes)
  timerSettingsStore, \* storage key 'timerSettings': [present, focusTime, breakTime]
  pomodoroStats,      \* storage key 'pomodoroStats', today's entry: [completed, total]
  timerAlert          \* the completion dialog on screen: "none", "work" or "break"

VARIABLES
  usersStore,         \* storage key USERS_KEY: the list of users (absent = empty list)
  userCounterStore,   \* storage key USER_COUNTER_KEY, read by parseInt (absent = 0)
  createCalls,        \* the createUser calls: position, arguments and locals of each
  createResult        \* the message of the createUser call that returned last

streakVars == <<day, tasksStore, nextTaskId, streakStore, trackerMountDay, trackerState,
                screenMountDay, screenRenderDay, screenState,
                evals, evalWrote, quiet>>

notifVars == <<clock, platformSupported, settingsStore, notifStore, pendingAlerts,
               nextHandle, schedPc, schedArgs, schedReminder, schedNow, schedRead,
               schedPushed, schedLog>>

scorerVars == <<scorerTasks, todayEnergyLevel, currentTimeContext, suggestedTasks>>

\* the state of the components next to streaks and notifications
energyVars == <<logDay, energyLogStore, selectedEnergy, todayLogged>>

blockVars == <<newTimeBlock, timeBlocksStore, timeBlocks, blockAlert>>

taskScreenVars == <<screenTasks, taskScreenToday>>

deleteVars == <<deletedTasks, deletedHandles>>

timerVars == <<timeLeft, isActive, isBreak, sessionsCompleted, focusTime, breakTime,
               timerSettingsStore, pomodoroStats, timerAlert>>

userVars == <<usersStore, userCounterStore, createCalls, createResult>>

otherVars ==
  <<scorerVars, energyVars, blockVars, taskScreenVars, deleteVars, timerVars, userVars>>

vars == <<streakVars, notifVars, otherVars>>

\* ------------------------------------------------------------------- dates
ToDateString(d) == [fmt |-> "long", day |-> d]
\* new Date().toISOString().split('T')[0]: the YYYY-MM-DD day key (the same
\* calendar day is assumed in UTC and in local time)
ToISODate(d) == [fmt |-> "iso", day |-> d]

NoLink == 0
\* the optional Task fields when absent
NoDeadline == -1000
NoPriority == "none"
NoFocusType == "none"
NoRating == 0

\* ------------------------------------------------------------- StreakData
InitialStreakData ==
  [currentStreak |-> 0, longestStreak |-> 0,
   lastCheckedDate |-> EmptyDate, lastCompletionDate |-> EmptyDate]

Max(a, b) == IF a >= b THEN a ELSE b

\* todayTasks.length > 0 && every(completed), or an incomplete task of today
\* has a completed task linked to it
\* allTasks.filter(task => task.date === today) of both evaluators, today
\* being new Date().toDateString()
TodayTasks(allTasks, today) == {t \in allTasks : t.date = ToDateString(today)}

\* the same filter in loadData of the home screen
TodayTasksList(allTasks, today) == {t \in allTasks : t.date = ToDateString(today)}

\* new Date(task.date).toISOString().split('T')[0] of a long date string: the
\* UTC day of the local midnight, which east of Greenwich is the day before
LongToISODate(date, eastOfGreenwich) ==
  ToISODate(IF eastOfGreenwich THEN date.day - 1 ELSE date.day)

\* the filter of loadTasks on the task screen: a date with a space in it is
\* converted first; today is new Date().toISOString().split('T')[0]
LoadedTodayTasks(allTasks, today, eastOfGreenwich) ==
  LET TaskDate(t) == IF t.date.fmt = "long"
                     THEN LongToISODate(t.date, eastOfGreenwich)
                     ELSE t.date
  IN {t \in allTasks : TaskDate(t) = ToISODate(today)}

AllTasksCompleted(allTasks, today) ==
  LET todayTasks == TodayTasks(allTasks, today)
      allDone == todayTasks # {} /\ \A t \in todayTasks : t.completed
      incompleteTasks == {t \in todayTasks : ~t.completed}
      hasCompletedMicroTasks ==
        \E it \in incompleteTasks :
          \E t \in allTasks : t.linkedToTaskId = it.id /\ t.completed
  IN allDone \/ (~allDone /\ hasCompletedMicroTasks)

NoWrite == [write |-> FALSE, data |-> InitialStreakData]

TrackerCompletionUpdate_NoMax(streakData, today, yesterday) ==
  LET cur == IF streakData.lastCompletionDate = yesterday \/ streakData.currentStreak = 0
             THEN streakData.currentStreak + 1
             ELSE 1
  IN [currentStreak |-> cur,
      longestStreak |-> streakData.longestStreak,
      lastCheckedDate |-> today,
      lastCompletionDate |-> today]

\* StreakTracker, the branch taken when today counts as complete and has not
\* been counted
TrackerCompletionUpdate(streakData, today, yesterday) ==
  LET cur == IF streakData.lastCompletionDate = yesterday \/ streakData.currentStreak = 0
             THEN streakData.currentStreak + 1
             ELSE 1
  IN [currentStreak |-> cur,
      longestStreak |-> Max(streakData.longestStreak, cur),
      lastCheckedDate |-> today,
      lastCompletionDate |-> today]

\* StreakScreen, the same branch (a copy of the code above)
ScreenCompletionUpdate(streakData, today, yesterday) ==
  LET cur == IF streakData.lastCompletionDate = yesterday \/ streakData.currentStreak = 0
             THEN streakData.currentStreak + 1
             ELSE 1
  IN [currentStreak |-> cur,
      longestStreak |-> Max(streakData.longestStreak, cur),
      lastCheckedDate |-> today,
      lastCompletionDate |-> today]

\* Math.floor((new Date(today) - new Date(lastCompletionDate || today)) / 86400000)
\* (local midnights are taken to be 24 h apart)
DaysDifference(streakData, today) ==
  today - (IF streakData.lastCompletionDate = EmptyDate THEN today
           ELSE streakData.lastCompletionDate)

TrackerCheck_Recount(streakData, today, nowDay, allTasks) ==
  IF AllTasksCompleted(allTasks, today)
  THEN [write |-> TRUE,
        data |-> [currentStreak |-> streakData.currentStreak + 1,
                  longestStreak |-> Max(streakData.longestStreak,
                                        streakData.currentStreak + 1),
                  lastCheckedDate |-> today,
                  lastCompletionDate |-> today]]
  ELSE NoWrite

\* StreakTracker.checkAndUpdateStreak after the tasks were read: streakData and
\* today are the values its closure captured, nowDay is new Date()
TrackerCheck(streakData, today, nowDay, allTasks) ==
  LET yesterday == nowDay - 1
  IN IF AllTasksCompleted(allTasks, today)
     THEN IF streakData.lastCompletionDate # today
          THEN [write |-> TRUE, data |-> TrackerCompletionUpdate(streakData, today, yesterday)]
          ELSE NoWrite
     ELSE IF /\ streakData.lastCheckedDate # today
             /\ streakData.lastCompletionDate # yesterday
             /\ streakData.currentStreak > 0
             /\ DaysDifference(streakData, today) > 1
          THEN [write |-> TRUE,
                data |-> [streakData EXCEPT !.currentStreak = 0, !.lastCheckedDate = today]]
          ELSE NoWrite

\* StreakScreen.checkAndUpdateStreak after the tasks were read
ScreenCheck(streakData, today, nowDay, allTasks) ==
  LET yesterday == nowDay - 1
  IN IF AllTasksCompleted(allTasks, today) /\ streakData.lastCompletionDate # today
     THEN [write |-> TRUE, data |-> ScreenCompletionUpdate(streakData, today, yesterday)]
     ELSE NoWrite

\* ------------------------------------------------------------------- Init
InitStreak ==
  /\ day = 1
  /\ tasksStore = [present |-> FALSE, items |-> {}]
  /\ nextTaskId = 1
  /\ streakStore = [present |-> FALSE, data |-> InitialStreakData]
  /\ trackerMountDay = EmptyDate
  /\ trackerState = InitialStreakData
  /\ screenMountDay = EmptyDate
  /\ screenRenderDay = EmptyDate
  /\ screenState = InitialStreakData
  /\ evals = {}
  /\ evalWrote = FALSE
  /\ quiet = FALSE

trackerVars == <<trackerMountDay, trackerState>>
screenVars == <<screenMountDay, screenRenderDay, screenState>>
histVars == <<evalWrote, quiet>>

\* ------------------------------------------------------------ environment
\* midnight passes
NextDay ==
  /\ day < MaxDay
  /\ day' = day + 1
  /\ evalWrote' = FALSE
  /\ quiet' = FALSE
  /\ UNCHANGED <<tasksStore, nextTaskId, streakStore, trackerVars, screenVars, evals>>

\* ------------------------------------------------------------------ tasks
\* the task createTaskFromVoice stores: no priority, deadline, importance,
\* urgency or focus type
NewTask(id, d) ==
  [id |-> id, date |-> ToDateString(d), completed |-> FALSE,
   priority |-> NoPriority, deadline |-> NoDeadline, importance |-> NoRating,
   urgency |-> NoRating, focusType |-> NoFocusType,
   linkedToTaskId |-> NoLink, isMicroTask |-> FALSE, hasMicroTaskActive |-> FALSE]

\* the form of the task screen: as it opens (the suggested deadline is three
\* days ahead) or filled in by the user
TaskForms(d) ==
  {[priority |-> "medium", deadline |-> d + 3, importance |-> 3, urgency |-> 3,
    focusType |-> "administrative"],
   [priority |-> "high", deadline |-> d + 1, importance |-> 5, urgency |-> 4,
    focusType |-> "deep-focus"]}


\* VoiceAssistant.createTaskFromVoice
createTaskFromVoice ==
  /\ nextTaskId <= MaxTasks
  /\ tasksStore' = [present |-> TRUE,
                    items |-> tasksStore.items \cup {NewTask(nextTaskId, day)}]
  /\ nextTaskId' = nextTaskId + 1
  /\ quiet' = FALSE
  /\ UNCHANGED <<day, streakStore, trackerVars, screenVars, evals, evalWrote>>

\* TasksScreen.addTask with notifications disabled (the initial
\* notificationsEnabled): the task is dated with the screen's YYYY-MM-DD today
addTask ==
  /\ nextTaskId <= MaxTasks
  /\ \E form \in TaskForms(day) :
       LET newTask == [NewTask(nextTaskId, day) EXCEPT
                         !.date = ToISODate(day),
                         !.priority = form.priority,
                         !.deadline = form.deadline,
                         !.importance = form.importance,
                         !.urgency = form.urgency,
                         !.focusType = form.focusType]
       IN tasksStore' = [present |-> TRUE, items |-> tasksStore.items \cup {newTask}]
  /\ nextTaskId' = nextTaskId + 1
  /\ quiet' = FALSE
  /\ UNCHANGED <<day, streakStore, trackerVars, screenVars, evals, evalWrote>>

\* VoiceAssistant.completeTaskFromVoice: the spoken title selects an incomplete task
completeTaskFromVoice ==
  /\ tasksStore.present
  /\ \E t \in tasksStore.items :
       /\ ~t.completed
       /\ tasksStore' = [tasksStore EXCEPT
            !.items = (tasksStore.items \ {t}) \cup {[t EXCEPT !.completed = TRUE]}]
  /\ quiet' = FALSE
  /\ UNCHANGED <<day, nextTaskId, streakStore, trackerVars, screenVars, evals, evalWrote>>

\* the micro-task createMicroTask builds for the parent task originalTask
MicroTask_OwnDeadline(originalTask, id, today) ==
  [NewTask(id, today) EXCEPT
     !.priority = IF originalTask.priority = NoPriority
                  THEN "medium" ELSE originalTask.priority,
     !.deadline = today + 3,
     !.importance = originalTask.importance,
     !.urgency = originalTask.urgency,
     !.focusType = originalTask.focusType,
     !.linkedToTaskId = originalTask.id,
     !.isMicroTask = TRUE]
MicroTask(originalTask, id, today) ==
  [NewTask(id, today) EXCEPT
     !.priority = IF originalTask.priority = NoPriority
                  THEN "medium" ELSE originalTask.priority,
     !.deadline = originalTask.deadline,
     !.importance = originalTask.importance,
     !.urgency = originalTask.urgency,
     !.focusType = originalTask.focusType,
     !.linkedToTaskId = originalTask.id,
     !.isMicroTask = TRUE]

\* MicroCommitmentModal.createMicroTask for the parent task originalTask, with
\* a non-empty micro-step description
createMicroTask ==
  /\ nextTaskId <= MaxTasks
  /\ nextTaskId' = nextTaskId + 1
  /\ \E originalTask \in tasksStore.items :
       LET microTask == MicroTask(originalTask, nextTaskId, day)
           allTasks == tasksStore.items \cup {microTask}
           updatedTasks == {IF t.id = originalTask.id
                            THEN [t EXCEPT !.hasMicroTaskActive = TRUE]
                            ELSE t : t \in allTasks}
       IN tasksStore' = [present |-> TRUE, items |-> updatedTasks]
  /\ quiet' = FALSE
  /\ UNCHANGED <<day, streakStore, trackerVars, screenVars, evals, evalWrote>>

\* settings screen clearAllData: multiRemove(['tasks', ...])
clearAllData ==
  /\ tasksStore.present
  /\ tasksStore' = [present |-> FALSE, items |-> {}]
  /\ quiet' = FALSE
  /\ UNCHANGED <<day, nextTaskId, streakStore, trackerVars, screenVars, evals, evalWrote>>

\* ---------------------------------------------------------- StreakTracker
\* the effect on [streakData]: runs checkAndUpdateStreak of the render that
\* set `data`, when data.lastCheckedDate !== ''
TrackerEffect(data) ==
  IF data.lastCheckedDate # EmptyDate
  THEN {[snap |-> data, today |-> day]}
  ELSE {}

\* the app process is (re)started: pending callbacks are gone, the home screen
\* mounts StreakTracker with its initial state and the mount effect runs
\* loadStreakData
AppLaunch ==
  /\ trackerMountDay' = day
  /\ IF streakStore.present
     THEN /\ trackerState' = streakStore.data
          /\ evals' = TrackerEffect(streakStore.data)
     ELSE /\ trackerState' = InitialStreakData
          /\ evals' = {}
  /\ screenMountDay' = EmptyDate
  /\ screenRenderDay' = EmptyDate
  /\ screenState' = InitialStreakData
  /\ UNCHANGED <<day, tasksStore, nextTaskId, streakStore, histVars>>

EvalWrote ==
  /\ evalWrote' = TRUE
  /\ quiet' = TRUE

\* StreakTracker.checkAndUpdateStreak with the closure values (streakData,
\* today), from the point where getItem('tasks') has resolved; saveStreakData
\* writes the record and sets the state, which re-runs the effect
TrackerCheckAndUpdateStreak(streakData, today, pending) ==
  LET r == IF tasksStore.present
           THEN TrackerCheck(streakData, today, day, tasksStore.items)
           ELSE NoWrite
  IN /\ IF r.write
        THEN /\ streakStore' = [present |-> TRUE, data |-> r.data]
             /\ trackerState' = r.data
             /\ evals' = pending \cup TrackerEffect(r.data)
             /\ EvalWrote
        ELSE /\ evals' = pending
             /\ UNCHANGED <<streakStore, trackerState, histVars>>
     /\ UNCHANGED <<day, tasksStore, nextTaskId, trackerMountDay, screenVars>>

\* an invocation started by the effect on [streakData] resumes
TrackerEffectCheck(inv) ==
  /\ inv \in evals
  /\ TrackerCheckAndUpdateStreak(inv.snap, inv.today, evals \ {inv})

\* the 2-second interval created by the mount effect (deps []) fires and its
\* invocation resumes: it is the checkAndUpdateStreak of the first render,
\* whose closure holds the initial state and the mount day
TrackerPoll ==
  /\ trackerMountDay # EmptyDate
  /\ TrackerCheckAndUpdateStreak(InitialStreakData, trackerMountDay, evals)

\* ----------------------------------------------------------- StreakScreen
\* the screen gains focus: the focus callback (memoised on the first render)
\* runs loadData and the checkAndUpdateStreak of the first render, whose
\* closure holds the initial state and the mount day
ScreenFocus ==
  /\ trackerMountDay # EmptyDate
  /\ LET mountDay == IF screenMountDay = EmptyDate THEN day ELSE screenMountDay
         r == IF tasksStore.present
              THEN ScreenCheck(InitialStreakData, mountDay, day, tasksStore.items)
              ELSE NoWrite
     IN /\ screenMountDay' = mountDay
        /\ IF r.write
           THEN /\ streakStore' = [present |-> TRUE, data |-> r.data]
                /\ screenState' = r.data
                /\ EvalWrote
           ELSE /\ screenState' = IF streakStore.present THEN streakStore.data
                                  ELSE screenState
                /\ UNCHANGED <<streakStore, histVars>>
  /\ screenRenderDay' = day
  /\ UNCHANGED <<day, tasksStore, nextTaskId, trackerVars, evals>>

\* StreakScreen.onRefresh: loadData
onRefresh ==
  /\ screenMountDay # EmptyDate
  /\ screenState' = IF streakStore.present THEN streakStore.data ELSE screenState
  /\ screenRenderDay' = day
  /\ UNCHANGED <<day, tasksStore, nextTaskId, streakStore, trackerVars, screenMountDay, evals, histVars>>

\* StreakScreen.resetStreak, confirmed in the dialog
resetStreak ==
  /\ screenMountDay # EmptyDate
  /\ LET newStreakData == [screenState EXCEPT !.currentStreak = 0,
                                              !.lastCheckedDate = screenRenderDay]
     IN /\ streakStore' = [present |-> TRUE, data |-> newStreakData]
        /\ screenState' = newStreakData
  /\ screenRenderDay' = day
  /\ quiet' = FALSE
  /\ UNCHANGED <<day, tasksStore, nextTaskId, trackerVars, screenMountDay, evals, evalWrote>>

NextStreak ==
  /\ \/ NextDay
     \/ AppLaunch
     \/ createTaskFromVoice
     \/ completeTaskFromVoice
     \/ createMicroTask
     \/ clearAllData
     \/ \E inv \in evals : TrackerEffectCheck(inv)
     \/ TrackerPoll
     \/ ScreenFocus
     \/ onRefresh
     \/ resetStreak
  /\ UNCHANGED <<notifVars, otherVars>>

\* =================================================== notification service
Minute == 60000
FinalWarningMinutes == 15
HalfwayMinimumDuration == 30
DefaultPreStartMinutes == 15

\* ------------------------------------------------------------------ bounds
MaxHandles == 6
MaxClock == 2

\* inputs of scheduleTaskNotifications
NotifTaskIds == {1, 2}
ClockStep == 15 * Minute
Deadlines == {15 * Minute, 30 * Minute, 60 * Minute, 120 * Minute}
Leads == {0, 15}
NoDuration == 0
Durations == {NoDuration, 20, 31, 60}

\* a Date object, and the ISO string JSON.stringify turns it into (a string
\* stays a string)
DateOf(t) == [kind |-> "Date", t |-> t]
ToISOString(d) == [kind |-> "string", t |-> d.t]
ToJSON(list) == {[n EXCEPT !.scheduledTime = ToISOString(n.scheduledTime)] : n \in list}

Range(seq) == {seq[i] : i \in 1..Len(seq)}

NoArgs == [taskId |-> 0, deadline |-> 0, preStartMinutes |-> 0, estimatedDuration |-> NoDuration]

InitNotifRest ==
  /\ settingsStore = [present |-> FALSE, preStartMinutes |-> DefaultPreStartMinutes]
  /\ notifStore = {}
  /\ pendingAlerts = {}
  /\ nextHandle = 1
  /\ schedPc = "idle"
  /\ schedArgs = NoArgs
  /\ schedReminder = 0
  /\ schedNow = 0
  /\ schedRead = {}
  /\ schedPushed = <<>>
  /\ schedLog = <<>>

InitNotif ==
  /\ clock = 0
  /\ platformSupported \in BOOLEAN
  /\ InitNotifRest

InitNotifIdle ==
  /\ clock = 0
  /\ platformSupported = TRUE
  /\ InitNotifRest

schedLocals == <<schedArgs, schedReminder, schedNow, schedRead, schedPushed, schedLog>>

\* time passes
Tick ==
  /\ clock < MaxClock * ClockStep
  /\ clock' = clock + ClockStep
  /\ UNCHANGED <<platformSupported, settingsStore, notifStore, pendingAlerts,
                 nextHandle, schedPc, schedLocals>>

\* saveNotificationSettings from the settings dialog
saveNotificationSettings(minutes) ==
  /\ settingsStore' = [present |-> TRUE, preStartMinutes |-> minutes]
  /\ UNCHANGED <<clock, platformSupported, notifStore, pendingAlerts,
                 nextHandle, schedPc, schedLocals>>

\* getNotificationSettings
getNotificationSettings ==
  IF settingsStore.present THEN settingsStore.preStartMinutes ELSE DefaultPreStartMinutes

\* the conditions and instants of scheduleTaskNotifications
DeadlineInFuture_OrNow(deadline, now) == deadline >= now
DeadlineInFuture(deadline, now) == deadline > now
FinalWarningTime_TenMinutes(deadline) == deadline - 10 * Minute
FinalWarningTime(deadline) == deadline - FinalWarningMinutes * Minute
HasDuration(estimatedDuration) == estimatedDuration # NoDuration /\ estimatedDuration > 0
TaskStartTime(deadline, estimatedDuration) == deadline - estimatedDuration * Minute
PreStartTime(deadline, estimatedDuration, reminderMinutes) ==
  TaskStartTime(deadline, estimatedDuration) - reminderMinutes * Minute
HalfwayTime_FullDuration(deadline, estimatedDuration) ==
  TaskStartTime(deadline, estimatedDuration) + estimatedDuration * 60000
HalfwayTime(deadline, estimatedDuration) ==
  TaskStartTime(deadline, estimatedDuration) + estimatedDuration * 30000
ReminderTime(deadline, reminderMinutes) == deadline - reminderMinutes * Minute
ReminderInFuture_OrNow(reminderTime, now) == reminderTime >= now
ReminderInFuture(reminderTime, now) == reminderTime > now

\* the next await of scheduleTaskNotifications after the final-warning block
AfterFinalWarning(a, reminderMinutes, now) ==
  IF HasDuration(a.estimatedDuration)
  THEN IF /\ PreStartTime(a.deadline, a.estimatedDuration, reminderMinutes) > now
          /\ TaskStartTime(a.deadline, a.estimatedDuration) > now
       THEN "pre-start"
       ELSE "save"
  ELSE IF ReminderInFuture(ReminderTime(a.deadline, reminderMinutes), now)
       THEN "reminder"
       ELSE "save"

\* ... after the due-time request
AfterDueTime(a, reminderMinutes, now) ==
  IF FinalWarningTime(a.deadline) > now
  THEN "final-warning"
  ELSE AfterFinalWarning(a, reminderMinutes, now)

\* ... after cancelTaskNotifications and now = new Date()
AfterCancel(a, reminderMinutes, now) ==
  IF DeadlineInFuture(a.deadline, now) THEN "due-time" ELSE "save"

\* ... after the pre-start request
AfterPreStart(a, now) ==
  IF /\ a.estimatedDuration > HalfwayMinimumDuration
     /\ HalfwayTime(a.deadline, a.estimatedDuration) > now
     /\ HalfwayTime(a.deadline, a.estimatedDuration) < a.deadline
  THEN "halfway-reminder"
  ELSE "save"

\* scheduleTaskNotifications is called; it reads the settings and the list
scheduleTaskNotifications(taskId, deadline, preStartMinutes, estimatedDuration) ==
  /\ schedPc = "idle"
  /\ nextHandle + 3 <= MaxHandles
  /\ schedArgs' = [taskId |-> taskId, deadline |-> deadline,
                   preStartMinutes |-> preStartMinutes,
                   estimatedDuration |-> estimatedDuration]
  /\ IF platformSupported
     THEN /\ schedReminder' = IF preStartMinutes # 0 THEN preStartMinutes
                              ELSE getNotificationSettings
          /\ schedRead' = notifStore
          /\ schedPc' = "cancel"
     ELSE /\ schedPc' = "done"
          /\ UNCHANGED <<schedReminder, schedRead>>
  /\ UNCHANGED <<clock, platformSupported, settingsStore, notifStore, pendingAlerts,
                 nextHandle, schedNow, schedPushed, schedLog>>

\* cancelTaskNotifications(taskId): cancel every recorded handle of the task,
\* save the records of the other tasks
CancelledHandles_None(taskId) == {}
CancelledHandles(taskId) == {n.notificationId : n \in {m \in notifStore : m.taskId = taskId}}
RemainingNotifications(taskId) == {n \in notifStore : n.taskId # taskId}

\* line 223 of scheduleTaskNotifications, then now = new Date()
SchedCancel ==
  /\ schedPc = "cancel"
  /\ pendingAlerts' = pendingAlerts \ CancelledHandles(schedArgs.taskId)
  /\ notifStore' = ToJSON(RemainingNotifications(schedArgs.taskId))
  /\ schedLog' = schedLog \o
       [i \in 1..Cardinality(CancelledHandles(schedArgs.taskId)) |->
          [op |-> "cancel", type |-> "", time |-> 0, ok |-> TRUE, handle |-> 0]]
  /\ schedNow' = clock
  /\ schedPc' = AfterCancel(schedArgs, schedReminder, clock)
  /\ UNCHANGED <<clock, platformSupported, settingsStore, nextHandle, schedArgs,
                 schedReminder, schedRead, schedPushed>>

\* deleteTask (task screen): cancelTaskNotifications(taskId)
cancelTaskNotifications(taskId) ==
  /\ platformSupported
  /\ pendingAlerts' = pendingAlerts \ CancelledHandles(taskId)
  /\ notifStore' = ToJSON(RemainingNotifications(taskId))
  /\ UNCHANGED <<clock, platformSupported, settingsStore, nextHandle, schedPc, schedLocals>>

\* one Notifications.scheduleNotificationAsync request of the call resolves:
\* accepted (a handle comes back and the record is pushed) or rejected (the
\* request throws; every catch of the function leaves it without saving)
Request(type, idSuffix, time, nextPc) ==
  /\ schedPc = type
  /\ \E ok \in BOOLEAN :
       /\ schedLog' = Append(schedLog,
            [op |-> "schedule", type |-> IF type = "reminder" THEN "pre-start" ELSE type,
             time |-> time, ok |-> ok, handle |-> IF ok THEN nextHandle ELSE 0])
       /\ IF ok
          THEN /\ pendingAlerts' = pendingAlerts \cup {nextHandle}
               /\ nextHandle' = nextHandle + 1
               /\ schedPushed' = Append(schedPushed,
                    [id |-> <<schedArgs.taskId, idSuffix>>, taskId |-> schedArgs.taskId,
                     type |-> IF type = "reminder" THEN "pre-start" ELSE type,
                     scheduledTime |-> DateOf(time), notificationId |-> nextHandle])
               /\ schedPc' = nextPc
          ELSE /\ schedPc' = "done"
               /\ UNCHANGED <<pendingAlerts, nextHandle, schedPushed>>
  /\ UNCHANGED <<clock, platformSupported, settingsStore, notifStore, schedArgs,
                 schedReminder, schedNow, schedRead>>

ScheduleDueTime ==
  Request("due-time", "due-time", schedArgs.deadline,
          AfterDueTime(schedArgs, schedReminder, schedNow))

ScheduleFinalWarning ==
  Request("final-warning", "final-warning", FinalWarningTime(schedArgs.deadline),
          AfterFinalWarning(schedArgs, schedReminder, schedNow))

SchedulePreStart ==
  Request("pre-start", "pre-start",
          PreStartTime(schedArgs.deadline, schedArgs.estimatedDuration, schedReminder),
          AfterPreStart(schedArgs, schedNow))

ScheduleHalfway ==
  Request("halfway-reminder", "halfway",
          HalfwayTime(schedArgs.deadline, schedArgs.estimatedDuration), "save")

ScheduleReminder ==
  Request("reminder", "pre-start", ReminderTime(schedArgs.deadline, schedReminder), "save")

\* saveScheduledNotifications(scheduledNotifications)
SchedSave ==
  /\ schedPc = "save"
  /\ notifStore' = ToJSON(schedRead \cup Range(schedPushed))
  /\ schedPc' = "done"
  /\ UNCHANGED <<clock, platformSupported, settingsStore, pendingAlerts, nextHandle,
                 schedLocals>>

\* the call has returned; its locals are gone
SchedReturn ==
  /\ schedPc = "done"
  /\ schedPc' = "idle"
  /\ schedArgs' = NoArgs
  /\ schedReminder' = 0
  /\ schedNow' = 0
  /\ schedRead' = {}
  /\ schedPushed' = <<>>
  /\ schedLog' = <<>>
  /\ UNCHANGED <<clock, platformSupported, settingsStore, notifStore, pendingAlerts,
                 nextHandle>>

NextNotif ==
  /\ \/ Tick
     \/ \E m \in Leads \ {0} : saveNotificationSettings(m)
     \/ \E t \in NotifTaskIds, d \in Deadlines, l \in Leads, e \in Durations :
          scheduleTaskNotifications(t, d, l, e)
     \/ SchedCancel
     \/ \E t \in NotifTaskIds : cancelTaskNotifications(t)
     \/ ScheduleDueTime
     \/ ScheduleFinalWarning
     \/ SchedulePreStart
     \/ ScheduleHalfway
     \/ ScheduleReminder
     \/ SchedSave
     \/ SchedReturn
  /\ UNCHANGED <<streakVars, otherVars>>

\* =================================================== task suggestion scorer
TopCount == 5
HoursPerDay == 24
MaxScored == 6

Priorities == {"high", "medium", "low"}
FocusTypes == {"none", "deep-focus", "creative", "administrative", "low-energy"}
\* task.deadline, as hours from now (negative: overdue)
DeadlineHours == {NoDeadline, -5, 20, 24, 25, 72, 73, 168, 169}
EnergyLevels == 1..5
TimeContexts == {"morning", "afternoon", "evening"}

ScoredTask(p, f, h, c) == [priority |-> p, focusType |-> f, deadline |-> h, completed |-> c]
\* the tasks the parent screen passes in the tasks prop
ScorerTaskPool ==
  {ScoredTask("low", "none", NoDeadline, FALSE),
   ScoredTask("high", "none", NoDeadline, FALSE),
   ScoredTask("medium", "deep-focus", 150, FALSE),
   ScoredTask("high", "creative", 20, TRUE)}

\* Math.ceil((deadlineDate - today) / (1000 * 60 * 60 * 24))
DaysUntilDeadline(h) == -((-h) \div HoursPerDay)

PriorityScore_HighUnranked(task) ==
  IF task.priority = "medium" THEN 2 ELSE 1
PriorityScore(task) ==
  IF task.priority = "high" THEN 3 ELSE IF task.priority = "medium" THEN 2 ELSE 1

FocusScore(task, energyLevel) ==
  CASE task.focusType = "deep-focus" ->
         (IF energyLevel >= 4 THEN 3 ELSE IF energyLevel = 3 THEN 1 ELSE -1)
    [] task.focusType = "creative" -> (IF energyLevel >= 3 THEN 2 ELSE -1)
    [] task.focusType = "administrative" -> (IF energyLevel >= 2 THEN 1 ELSE 0)
    [] task.focusType = "low-energy" ->
         (IF energyLevel <= 2 THEN 3 ELSE IF energyLevel = 3 THEN 1 ELSE 0)
    [] OTHER -> 0

TimeScore(task, timeContext) ==
  CASE timeContext = "morning" ->
         (IF task.focusType = "deep-focus" THEN 2 ELSE 0)
         + (IF task.focusType = "creative" THEN 1 ELSE 0)
    [] timeContext = "afternoon" ->
         (IF task.focusType = "administrative" THEN 1 ELSE 0)
    [] OTHER ->
         (IF task.focusType = "low-energy" THEN 2 ELSE 0)
         + (IF task.focusType = "administrative" THEN 1 ELSE 0)

DeadlineScore_NoThreeDayStep(task) ==
  IF task.deadline = NoDeadline THEN 0
  ELSE LET daysUntilDeadline == DaysUntilDeadline(task.deadline)
       IN IF daysUntilDeadline <= 1 THEN 4
          ELSE IF daysUntilDeadline <= 7 THEN 1
          ELSE 0
DeadlineScore(task) ==
  IF task.deadline = NoDeadline THEN 0
  ELSE LET daysUntilDeadline == DaysUntilDeadline(task.deadline)
       IN IF daysUntilDeadline <= 1 THEN 4
          ELSE IF daysUntilDeadline <= 3 THEN 2
          ELSE IF daysUntilDeadline <= 7 THEN 1
          ELSE 0

Score(task, energyLevel, timeContext) ==
  PriorityScore(task) + FocusScore(task, energyLevel)
  + TimeScore(task, timeContext) + DeadlineScore(task)

\* positions of tasks.filter(task => !task.completed), in list order
RECURSIVE IncompleteTasks(_, _)
IncompleteTasks(tasks, i) ==
  IF i > Len(tasks) THEN <<>>
  ELSE (IF tasks[i].completed THEN <<>> ELSE <<i>>) \o IncompleteTasks(tasks, i + 1)

\* Array.prototype.sort((a, b) => b.score - a.score): stable, highest first
RECURSIVE InsertByScore(_, _, _)
InsertByScore(sorted, i, score) ==
  IF sorted = <<>> THEN <<i>>
  ELSE IF score[Head(sorted)] >= score[i]
       THEN <<Head(sorted)>> \o InsertByScore(Tail(sorted), i, score)
       ELSE <<i>> \o sorted
RECURSIVE SortByScore(_, _)
SortByScore(positions, score) ==
  IF positions = <<>> THEN <<>>
  ELSE InsertByScore(SortByScore(SubSeq(positions, 1, Len(positions) - 1), score),
                     positions[Len(positions)], score)

\* slice(0, 5)
Slice(seq, n) == SubSeq(seq, 1, IF Len(seq) < n THEN Len(seq) ELSE n)

\* the suggested tasks, as positions in the tasks prop
generateSmartSuggestions(tasks, energyLevel, timeContext) ==
  LET score == [i \in 1..Len(tasks) |-> Score(tasks[i], energyLevel, timeContext)]
  IN Slice(SortByScore(IncompleteTasks(tasks, 1), score), TopCount)

InitScorer ==
  /\ scorerTasks = <<>>
  /\ todayEnergyLevel = 3
  /\ currentTimeContext = "morning"
  /\ suggestedTasks = <<>>

\* the effect on [tasks]: the suggestions are generated from the energy level
\* (today's logged or predicted one) and the time of day read by the effect
loadEnergyAndGenerateSuggestions(tasks, energyLevel, timeContext) ==
  /\ scorerTasks' = tasks
  /\ todayEnergyLevel' = energyLevel
  /\ currentTimeContext' = timeContext
  /\ suggestedTasks' = generateSmartSuggestions(tasks, energyLevel, timeContext)

\* the parent screen renders with one more task in the tasks prop; the energy
\* log and the time of day are as the effect last read them
TasksPropGrows ==
  /\ Len(scorerTasks) < MaxScored
  /\ \E task \in ScorerTaskPool :
       loadEnergyAndGenerateSuggestions(Append(scorerTasks, task),
                                        todayEnergyLevel, currentTimeContext)

\* the parent screen renders with the same tasks in a new array, after the
\* energy log or the time of day has changed
TasksPropReloaded ==
  \/ \E energyLevel \in EnergyLevels :
       loadEnergyAndGenerateSuggestions(scorerTasks, energyLevel, currentTimeContext)
  \/ \E timeContext \in TimeContexts :
       loadEnergyAndGenerateSuggestions(scorerTasks, todayEnergyLevel, timeContext)

NextScorer ==
  /\ \/ TasksPropGrows
     \/ TasksPropReloaded
  /\ UNCHANGED <<streakVars, notifVars, energyVars, blockVars, taskScreenVars, deleteVars, timerVars, userVars>>

\* ========================================================= daily energy log
RetentionDays == 30
MinutesPerDay == 1440
NeutralEnergy == 3
NoEnergy == 0
MaxLogDay == 32
MaxIrregular == 1

\* the levels the user taps
TappedLevels == {1, NeutralEnergy, 5}
\* the time of day (UTC, minutes) of a call
TimesOfDay == {0, 30, 1410}
\* local UTC offset now minus the offset 30 days ago (a daylight-saving change
\* in between shifts the local wall-clock time by an hour)
DstShifts == {-60, 0, 60}

\* new Date('YYYY-MM-DD').getTime(): UTC midnight of the day, in minutes
ParseDate(date) == date.day * MinutesPerDay

\* thirtyDaysAgo: setDate(getDate() - 30) keeps the local wall-clock time
ThirtyDaysAgo(now, shift) == now - RetentionDays * MinutesPerDay + shift

WithoutDate(logs, today) ==
  LET Other(log) == log.date # today
  IN SelectSeq(logs, Other)

KeepRecent(logs, thirtyDaysAgo) ==
  LET Recent(log) == ParseDate(log.date) >= thirtyDaysAgo
  IN SelectSeq(logs, Recent)

NewEnergyLog_KeepExisting(logs, today, energy, thirtyDaysAgo) ==
  KeepRecent(Append(logs, [date |-> today, energy |-> energy]), thirtyDaysAgo)
\* the list logEnergyLevel writes
NewEnergyLog(logs, today, energy, thirtyDaysAgo) ==
  KeepRecent(Append(WithoutDate(logs, today), [date |-> today, energy |-> energy]),
             thirtyDaysAgo)

InitEnergy ==
  /\ logDay = 1
  /\ energyLogStore = <<>>
  /\ selectedEnergy = NoEnergy
  /\ todayLogged = FALSE

\* the recent days without an entry and the entries of another level than
\* Neutral: the user logs Neutral once a day but for MaxIrregular such days
Skipped(logs, lastDay) ==
  LET first == IF lastDay > RetentionDays THEN lastDay - RetentionDays + 1 ELSE 1
  IN (first..lastDay) \ {logs[k].date.day : k \in 1..Len(logs)}
Varied(logs) == {k \in 1..Len(logs) : logs[k].energy # NeutralEnergy}
Irregular(logs, lastDay) == Cardinality(Skipped(logs, lastDay)) + Cardinality(Varied(logs))

\* a calendar day passes
NextLogDay ==
  /\ logDay < MaxLogDay
  /\ Irregular(energyLogStore, logDay) <= MaxIrregular
  /\ logDay' = logDay + 1
  /\ UNCHANGED <<energyLogStore, selectedEnergy, todayLogged>>

\* the modal becomes visible
checkTodayEnergyLog ==
  LET today == ToISODate(logDay)
      todayLogs == {k \in 1..Len(energyLogStore) : energyLogStore[k].date = today}
  IN /\ IF todayLogs # {}
        THEN /\ todayLogged' = TRUE
             /\ selectedEnergy' = energyLogStore[CHOOSE k \in todayLogs :
                                     \A j \in todayLogs : k <= j].energy
        ELSE /\ todayLogged' = FALSE
             /\ selectedEnergy' = NoEnergy
     /\ UNCHANGED <<logDay, energyLogStore>>

\* the user taps an energy level
logEnergyLevel(energy, timeOfDay, shift) ==
  LET today == ToISODate(logDay)
      now == logDay * MinutesPerDay + timeOfDay
      logs == NewEnergyLog(energyLogStore, today, energy, ThirtyDaysAgo(now, shift))
  IN /\ Irregular(logs, logDay) <= MaxIrregular
     /\ energyLogStore' = logs
     /\ selectedEnergy' = energy
     /\ todayLogged' = TRUE
     /\ UNCHANGED logDay

NextEnergy ==
  /\ \/ NextLogDay
     \/ checkTodayEnergyLog
     \/ \E energy \in TappedLevels, timeOfDay \in TimesOfDay, shift \in DstShifts :
          logEnergyLevel(energy, timeOfDay, shift)
  /\ UNCHANGED <<streakVars, notifVars, scorerVars, blockVars, taskScreenVars, deleteVars, timerVars, userVars>>

\* ============================================================= time blocks
\* Strings of the time fields are sequences of one-character strings.
MaxBlocks == 1

DigitChars == <<"0", "1", "2", "3", "4", "5", "6", "7", "8", "9">>
IsDigit(c) == \E k \in 1..10 : DigitChars[k] = c
IsSpace(c) == c = " "
ToUpperCase(c) == CASE c = "a" -> "A" [] c = "p" -> "P" [] c = "m" -> "M" [] OTHER -> c
\* the text at the positions from..Len(s)
From(s, from) == SubSeq(s, from, Len(s))

\* String.prototype.trim
RECURSIVE TrimStart(_)
TrimStart(s) == IF s # <<>> /\ IsSpace(Head(s)) THEN TrimStart(Tail(s)) ELSE s
RECURSIVE TrimEnd(_)
TrimEnd(s) ==
  IF s # <<>> /\ IsSpace(s[Len(s)]) THEN TrimEnd(SubSeq(s, 1, Len(s) - 1)) ELSE s
Trim(s) == TrimEnd(TrimStart(s))

\* (AM|PM) with the i flag, at position k
PeriodAt(s, k) ==
  /\ k + 1 <= Len(s)
  /\ ToUpperCase(s[k]) \in {"A", "P"}
  /\ ToUpperCase(s[k + 1]) = "M"

TimeRegexTest_AnyHour(s) ==
  \E hourLen \in {1, 2} :
    /\ Len(s) >= hourLen + 5
    /\ \A k \in 1..hourLen : IsDigit(s[k])
    /\ s[hourLen + 1] = ":"
    /\ s[hourLen + 2] \in {"0", "1", "2", "3", "4", "5"}
    /\ IsDigit(s[hourLen + 3])
    /\ \/ PeriodAt(s, hourLen + 4) /\ Len(s) = hourLen + 5
       \/ IsSpace(s[hourLen + 4]) /\ PeriodAt(s, hourLen + 5) /\ Len(s) = hourLen + 6
\* /^(0?[1-9]|1[0-2]):[0-5][0-9]\s?(AM|PM)$/i .test(s)
TimeRegexTest(s) ==
  \E hourLen \in {1, 2} :
    /\ Len(s) >= hourLen + 5
    /\ \/ hourLen = 1 /\ IsDigit(s[1]) /\ s[1] # "0"
       \/ hourLen = 2 /\ s[1] = "0" /\ IsDigit(s[2]) /\ s[2] # "0"
       \/ hourLen = 2 /\ s[1] = "1" /\ s[2] \in {"0", "1", "2"}
    /\ s[hourLen + 1] = ":"
    /\ s[hourLen + 2] \in {"0", "1", "2", "3", "4", "5"}
    /\ IsDigit(s[hourLen + 3])
    /\ \/ PeriodAt(s, hourLen + 4) /\ Len(s) = hourLen + 5
       \/ IsSpace(s[hourLen + 4]) /\ PeriodAt(s, hourLen + 5) /\ Len(s) = hourLen + 6

\* s.match(/(AM|PM)/i)?.[0] || defaultPeriod
CurrentPeriod(s, defaultPeriod) ==
  LET at == {k \in 1..Len(s) : PeriodAt(s, k)}
  IN IF at = {} THEN defaultPeriod
     ELSE LET k == CHOOSE j \in at : \A i \in at : j <= i
          IN SubSeq(s, k, k + 1)

\* s.replace(/ (AM|PM)/i, '')
WithoutPeriod(s) ==
  LET at == {k \in 1..Len(s) : IsSpace(s[k]) /\ PeriodAt(s, k + 1)}
  IN IF at = {} THEN s
     ELSE LET k == CHOOSE j \in at : \A i \in at : j <= i
          IN SubSeq(s, 1, k - 1) \o From(s, k + 3)

\* onChangeText of a time field: digits only, a colon after the second digit,
\* at most five characters, then the period the field had or its default
FormatTimeInput(text, current, defaultPeriod) ==
  LET digits == SelectSeq(text, IsDigit)
      withColon == IF Len(digits) >= 2
                   THEN SubSeq(digits, 1, 2) \o <<":">> \o From(digits, 3)
                   ELSE digits
      formatted == IF Len(withColon) > 5 THEN SubSeq(withColon, 1, 5) ELSE withColon
  IN formatted \o (IF formatted # <<>> THEN <<" ">> \o CurrentPeriod(current, defaultPeriod) ELSE <<>>)

\* onPress of the AM / PM button of a time field
WithPeriod(current, period) ==
  LET timeOnly == WithoutPeriod(current)
  IN timeOnly \o (IF timeOnly # <<>> THEN <<" ">> \o period ELSE <<>>)

\* what the user types into a time field
TypedTimes ==
  {<<>>, <<"9", "3", "0">>, <<"0", "9", "3", "0">>, <<"1", "2", ":", "0", "0">>,
   <<"1", "3", "0", "0">>, <<"0", "9", "6", "0">>, <<"0", "0", "3", "0">>}
Periods == {<<"A", "M">>, <<"P", "M">>}
BlockTitles == {"", "Deep work"}
TimeFields == {"startTime", "endTime"}
\* the period a time field takes when it has none: AM for start, PM for end
DefaultPeriod(field) == IF field = "startTime" THEN <<"A", "M">> ELSE <<"P", "M">>

EmptyForm == [title |-> "", startTime |-> <<>>, endTime |-> <<>>,
              date |-> "today", linkedTaskId |-> ""]
FillInAllFields == "Please fill in all fields"
ValidTimeFormat == "Please enter valid time format (e.g., 9:30 AM)"
BlockCreated == "Time block created"

InitBlocks ==
  /\ newTimeBlock = EmptyForm
  /\ timeBlocksStore = <<>>
  /\ timeBlocks = <<>>
  /\ blockAlert = ""

\* onChangeText of the title field
setBlockTitle(title) ==
  /\ newTimeBlock' = [newTimeBlock EXCEPT !.title = title]
  /\ UNCHANGED <<timeBlocksStore, timeBlocks, blockAlert>>

\* onChangeText of the start or end time field
typeTime(field, text) ==
  /\ newTimeBlock' = [newTimeBlock EXCEPT
       ![field] = FormatTimeInput(text, newTimeBlock[field], DefaultPeriod(field))]
  /\ UNCHANGED <<timeBlocksStore, timeBlocks, blockAlert>>

\* onPress of the AM or PM button of the start or end time field
pressPeriod(field, period) ==
  /\ newTimeBlock' = [newTimeBlock EXCEPT ![field] = WithPeriod(newTimeBlock[field], period)]
  /\ UNCHANGED <<timeBlocksStore, timeBlocks, blockAlert>>

\* loadTimeBlocks: the stored blocks of today (every block of the model)
LoadTimeBlocks(allTimeBlocks) ==
  LET Today(block) == block.date = "today"
  IN SelectSeq(allTimeBlocks, Today)

addTimeBlock ==
  IF newTimeBlock.title = "" \/ newTimeBlock.startTime = <<>> \/ newTimeBlock.endTime = <<>>
  THEN /\ blockAlert' = FillInAllFields
       /\ UNCHANGED <<newTimeBlock, timeBlocksStore, timeBlocks>>
  ELSE IF ~TimeRegexTest(Trim(newTimeBlock.startTime))
          \/ ~TimeRegexTest(Trim(newTimeBlock.endTime))
  THEN /\ blockAlert' = ValidTimeFormat
       /\ UNCHANGED <<newTimeBlock, timeBlocksStore, timeBlocks>>
  ELSE /\ Len(timeBlocksStore) < MaxBlocks
       /\ LET timeBlock == [id |-> Len(timeBlocksStore) + 1,
                            title |-> newTimeBlock.title,
                            startTime |-> Trim(newTimeBlock.startTime),
                            endTime |-> Trim(newTimeBlock.endTime),
                            date |-> newTimeBlock.date,
                            linkedTaskId |-> newTimeBlock.linkedTaskId]
              updatedBlocks == Append(timeBlocksStore, timeBlock)
          IN /\ timeBlocksStore' = updatedBlocks
             /\ timeBlocks' = LoadTimeBlocks(updatedBlocks)
       /\ newTimeBlock' = EmptyForm
       /\ blockAlert' = BlockCreated

NextBlocks ==
  /\ \/ \E title \in BlockTitles : setBlockTitle(title)
     \/ \E field \in TimeFields, text \in TypedTimes : typeTime(field, text)
     \/ \E field \in TimeFields, period \in Periods : pressPeriod(field, period)
     \/ addTimeBlock
  /\ UNCHANGED <<streakVars, notifVars, scorerVars, energyVars, taskScreenVars, deleteVars, timerVars, userVars>>

\* ============================================================= task screen
InitTaskScreen ==
  /\ screenTasks = {}
  /\ taskScreenToday = EmptyDate

\* the streak variables the task screen leaves alone
taskScreenFrame == <<streakStore, trackerVars, screenVars, evals, histVars>>

\* loadTasks with `today` of the closure that calls it: setTasks when the key
\* 'tasks' is present
LoadTasks(today, eastOfGreenwich, store, shown) ==
  IF store.present THEN LoadedTodayTasks(store.items, today, eastOfGreenwich) ELSE shown

\* the task screen gains focus: the focus callback of the first render runs
\* loadTasks (the first focus is the mount)
TaskScreenFocus ==
  /\ LET today == IF taskScreenToday = EmptyDate THEN day ELSE taskScreenToday
     IN /\ taskScreenToday' = today
        /\ \E eastOfGreenwich \in BOOLEAN :
             screenTasks' = LoadTasks(today, eastOfGreenwich, tasksStore, screenTasks)
  /\ UNCHANGED <<day, tasksStore, nextTaskId, taskScreenFrame>>

\* addTask on the mounted screen: the stored list and the list on screen
TaskScreenAddTask ==
  /\ taskScreenToday # EmptyDate
  /\ addTask
  /\ screenTasks' = screenTasks \cup (tasksStore'.items \ tasksStore.items)
  /\ UNCHANGED taskScreenToday

\* tasks.map(...) of toggleTask
ToggledTasks(shown, taskId) ==
  {IF t.id = taskId THEN [t EXCEPT !.completed = ~t.completed] ELSE t : t \in shown}

\* toggleTask(taskId): the list on screen, with the task toggled, is written
\* to the key 'tasks'; loadTasks then refreshes the view
toggleTask(taskId) ==
  /\ \E t \in screenTasks : t.id = taskId
  /\ LET updatedTasks == ToggledTasks(screenTasks, taskId)
     IN /\ tasksStore' = [present |-> TRUE, items |-> updatedTasks]
        /\ \E eastOfGreenwich \in BOOLEAN :
             screenTasks' = LoadTasks(day, eastOfGreenwich, tasksStore', updatedTasks)
  /\ quiet' = FALSE
  /\ UNCHANGED <<day, nextTaskId, streakStore, trackerVars, screenVars, evals, evalWrote,
                 taskScreenToday>>

NextTaskScreen ==
  /\ \/ NextDay /\ UNCHANGED taskScreenVars
     \/ createTaskFromVoice /\ UNCHANGED taskScreenVars
     \/ TaskScreenFocus
     \/ TaskScreenAddTask
     \/ \E taskId \in 1..MaxTasks : toggleTask(taskId)
  /\ UNCHANGED <<notifVars, scorerVars, energyVars, blockVars, deleteVars, timerVars, userVars>>

\* ============================================ cleanupExpiredNotifications
\* n.scheduledTime > now, now being a Date: a Date compares by its instant; a
\* string (what JSON.parse gives for a stored Date) is converted to a number,
\* which for an ISO date string is NaN, and every comparison with NaN is false
ScheduledAfter(scheduledTime, now) ==
  IF scheduledTime.kind = "Date" THEN scheduledTime.t > now ELSE FALSE

\* cleanupExpiredNotifications: the stored list is written back when the
\* filter dropped a record
cleanupExpiredNotifications ==
  /\ LET scheduledNotifications == notifStore
         activeNotifications ==
           {n \in scheduledNotifications : ScheduledAfter(n.scheduledTime, clock)}
     IN notifStore' =
          IF Cardinality(activeNotifications) # Cardinality(scheduledNotifications)
          THEN ToJSON(activeNotifications)
          ELSE notifStore
  /\ UNCHANGED <<clock, platformSupported, settingsStore, pendingAlerts, nextHandle,
                 schedPc, schedLocals>>

\* the notification service with the clean-up the task screen runs as it loads
NextCleanup ==
  \/ NextNotif
  \/ cleanupExpiredNotifications /\ UNCHANGED <<streakVars, otherVars>>

\* ============================================================== deleteTask
InitDelete ==
  /\ deletedTasks = {}
  /\ deletedHandles = {}

\* deleteTask(taskId), confirmed in the dialog: cancelTaskNotifications (which
\* returns at once on an unsupported platform), then the task is filtered out
\* of the stored list and of the list on screen
deleteTask(taskId) ==
  /\ taskId \notin deletedTasks
  /\ \/ cancelTaskNotifications(taskId)
     \/ ~platformSupported /\ UNCHANGED notifVars
  /\ tasksStore' = [present |-> TRUE,
                    items |-> {t \in tasksStore.items : t.id # taskId}]
  /\ screenTasks' = {t \in screenTasks : t.id # taskId}
  /\ quiet' = FALSE
  /\ deletedTasks' = deletedTasks \cup {taskId}
  /\ deletedHandles' = deletedHandles \cup CancelledHandles(taskId)
  /\ UNCHANGED <<day, nextTaskId, streakStore, trackerVars, screenVars, evals, evalWrote,
                 taskScreenToday>>

\* the notification service called from the task screen: addTask schedules for
\* tasks that exist, deleteTask cancels, a running call goes on
NextDelete ==
  \/ /\ \/ \E t \in NotifTaskIds \ deletedTasks, d \in Deadlines, l \in Leads,
             e \in Durations :
             scheduleTaskNotifications(t, d, l, e)
        \/ SchedCancel
        \/ ScheduleDueTime
        \/ ScheduleFinalWarning
        \/ SchedulePreStart
        \/ ScheduleHalfway
        \/ ScheduleReminder
        \/ SchedSave
        \/ SchedReturn
     /\ UNCHANGED <<streakVars, otherVars>>
  \/ /\ \E t \in NotifTaskIds : deleteTask(t)
     /\ UNCHANGED <<scorerVars, energyVars, blockVars, timerVars, userVars>>

\* ========================================================= pomodoro timer
MaxMinutes == 1
MaxSessions == 1
DefaultFocusTime == 25
DefaultBreakTime == 5
SecondsPerMinute == 60

\* the minute counts the settings screen is asked to store
FocusMinutes == 1..MaxMinutes
BreakMinutes == 1..MaxMinutes

\* `v || dflt`
OrDefault(v, dflt) == IF v = 0 THEN dflt ELSE v

\* isBreak ? BREAK_TIME : WORK_TIME, with BREAK_TIME = breakTime * 60 and
\* WORK_TIME = focusTime * 60 of the render that evaluates it
ModeTime(break, focus, rest) ==
  IF break THEN rest * SecondsPerMinute ELSE focus * SecondsPerMinute

\* the effect with dependencies [focusTime, breakTime, isBreak, isActive],
\* run after a commit that left the screen with (active, break, focus, rest)
\* and the time left `time`: when one of its dependencies changed and the
\* timer is not active, timeLeft is set to the duration of the mode
SettingsEffect(time, active, break, focus, rest) ==
  IF /\ <<focus, rest, break, active>> # <<focusTime, breakTime, isBreak, isActive>>
     /\ ~active
  THEN ModeTime(break, focus, rest)
  ELSE time

InitTimer ==
  /\ timeLeft = DefaultFocusTime * SecondsPerMinute
  /\ isActive = FALSE
  /\ isBreak = FALSE
  /\ sessionsCompleted = 0
  /\ focusTime = DefaultFocusTime
  /\ breakTime = DefaultBreakTime
  /\ timerSettingsStore = [present |-> FALSE, focusTime |-> 0, breakTime |-> 0]
  /\ pomodoroStats = [completed |-> 0, total |-> 0]
  /\ timerAlert = "none"

\* the Start button (shown while the timer is not active)
startTimer ==
  /\ timerAlert = "none"
  /\ ~isActive
  /\ isBreak \/ sessionsCompleted < MaxSessions
  /\ isActive' = TRUE
  /\ timeLeft' = SettingsEffect(timeLeft, TRUE, isBreak, focusTime, breakTime)
  /\ UNCHANGED <<isBreak, sessionsCompleted, focusTime, breakTime, timerSettingsStore,
                 pomodoroStats, timerAlert>>

\* the Pause button (shown while the timer is active)
pauseTimer ==
  /\ timerAlert = "none"
  /\ isActive
  /\ isActive' = FALSE
  /\ timeLeft' = SettingsEffect(timeLeft, FALSE, isBreak, focusTime, breakTime)
  /\ UNCHANGED <<isBreak, sessionsCompleted, focusTime, breakTime, timerSettingsStore,
                 pomodoroStats, timerAlert>>

resetTimer ==
  /\ timerAlert = "none"
  /\ isActive' = FALSE
  /\ timeLeft' = SettingsEffect(ModeTime(isBreak, focusTime, breakTime), FALSE, isBreak,
                                focusTime, breakTime)
  /\ UNCHANGED <<isBreak, sessionsCompleted, focusTime, breakTime, timerSettingsStore,
                 pomodoroStats, timerAlert>>

switchMode ==
  /\ timerAlert = "none"
  /\ LET newIsBreak == ~isBreak
     IN /\ isBreak' = newIsBreak
        /\ isActive' = FALSE
        /\ timeLeft' = SettingsEffect(ModeTime(newIsBreak, focusTime, breakTime), FALSE,
                                      newIsBreak, focusTime, breakTime)
  /\ UNCHANGED <<sessionsCompleted, focusTime, breakTime, timerSettingsStore,
                 pomodoroStats, timerAlert>>

\* one firing of the interval the [isActive] effect set, then, when the time
\* reaches 0, the effect that calls handleTimerComplete, and the effects of the
\* commit that stops the timer
TimerTick ==
  /\ isActive
  /\ timeLeft > 0
  /\ LET time == IF timeLeft <= 1 THEN 0 ELSE timeLeft - 1
     IN IF time = 0
        THEN /\ isActive' = FALSE
             /\ timeLeft' = SettingsEffect(time, FALSE, isBreak, focusTime, breakTime)
             /\ IF ~isBreak
                THEN LET newCompleted == sessionsCompleted + 1
                     IN /\ sessionsCompleted' = newCompleted
                        /\ pomodoroStats' = [completed |-> newCompleted,
                                             total |-> pomodoroStats.total + 1]
                        /\ timerAlert' = "work"
                ELSE /\ timerAlert' = "break"
                     /\ UNCHANGED <<sessionsCompleted, pomodoroStats>>
        ELSE /\ timeLeft' = time
             /\ UNCHANGED <<isActive, sessionsCompleted, pomodoroStats, timerAlert>>
  /\ UNCHANGED <<isBreak, focusTime, breakTime, timerSettingsStore>>

\* the button of the completion dialog: 'Start Break' or 'Start Work'
TimerAlertPress ==
  /\ timerAlert # "none"
  /\ LET newIsBreak == (timerAlert = "work")
     IN /\ isBreak' = newIsBreak
        /\ timeLeft' = SettingsEffect(ModeTime(newIsBreak, focusTime, breakTime), isActive,
                                      newIsBreak, focusTime, breakTime)
  /\ timerAlert' = "none"
  /\ UNCHANGED <<isActive, sessionsCompleted, focusTime, breakTime, timerSettingsStore,
                 pomodoroStats>>

\* pull to refresh
TimerOnRefresh ==
  /\ timerAlert = "none"
  /\ ~isActive
  /\ isBreak' = FALSE
  /\ timeLeft' = SettingsEffect(ModeTime(isBreak, focusTime, breakTime), FALSE, FALSE,
                                focusTime, breakTime)
  /\ UNCHANGED <<isActive, sessionsCompleted, focusTime, breakTime, timerSettingsStore,
                 pomodoroStats, timerAlert>>

\* the screen gains focus: loadTimerSettings of the first render, in whose
\* closure isActive and isBreak are false
loadTimerSettings ==
  /\ timerAlert = "none"
  /\ timerSettingsStore.present
  /\ LET newFocusTime == OrDefault(timerSettingsStore.focusTime, DefaultFocusTime)
         newBreakTime == OrDefault(timerSettingsStore.breakTime, DefaultBreakTime)
     IN /\ focusTime' = newFocusTime
        /\ breakTime' = newBreakTime
        /\ timeLeft' = SettingsEffect(ModeTime(FALSE, newFocusTime, newBreakTime), isActive,
                                      isBreak, newFocusTime, newBreakTime)
  /\ UNCHANGED <<isActive, isBreak, sessionsCompleted, timerSettingsStore, pomodoroStats,
                 timerAlert>>

\* the settings screen: its focusTime and breakTime are the stored ones, or the
\* defaults while nothing is stored
SettingsScreenTimes ==
  IF timerSettingsStore.present
  THEN [focusTime |-> OrDefault(timerSettingsStore.focusTime, DefaultFocusTime),
        breakTime |-> OrDefault(timerSettingsStore.breakTime, DefaultBreakTime)]
  ELSE [focusTime |-> DefaultFocusTime, breakTime |-> DefaultBreakTime]

saveTimerSettings(newFocusTime, newBreakTime) ==
  /\ timerSettingsStore' = [present |-> TRUE, focusTime |-> newFocusTime,
                            breakTime |-> newBreakTime]
  /\ UNCHANGED <<timeLeft, isActive, isBreak, sessionsCompleted, focusTime, breakTime,
                 pomodoroStats, timerAlert>>

updateFocusTime(minutes) ==
  /\ timerAlert = "none"
  /\ minutes >= 1 /\ minutes <= 60
  /\ saveTimerSettings(minutes, SettingsScreenTimes.breakTime)

updateBreakTime(minutes) ==
  /\ timerAlert = "none"
  /\ minutes >= 1 /\ minutes <= 30
  /\ saveTimerSettings(SettingsScreenTimes.focusTime, minutes)

NextTimer ==
  /\ \/ startTimer
     \/ pauseTimer
     \/ resetTimer
     \/ switchMode
     \/ TimerTick
     \/ TimerAlertPress
     \/ TimerOnRefresh
     \/ loadTimerSettings
     \/ \E minutes \in FocusMinutes : updateFocusTime(minutes)
     \/ \E minutes \in BreakMinutes : updateBreakTime(minutes)
  /\ UNCHANGED <<streakVars, notifVars, scorerVars, energyVars, blockVars, taskScreenVars,
                 deleteVars, userVars>>

\* ============================================================= createUser
MaxCalls == 4

\* String.prototype.toLowerCase on the letters the sign-up forms use
LowerChar(c) == CASE c = "A" -> "a" [] c = "B" -> "b" [] OTHER -> c
ToLowerCase(s) == [k \in 1..Len(s) |-> LowerChar(s[k])]

\* the sign-up forms submitted: two different people, a second username on
\* the first one's email in another case, and the first username in another
\* case on the second one's email
SignUps ==
  {[username |-> <<"a">>, email |-> <<"a", "@", "x">>],
   [username |-> <<"b">>, email |-> <<"b", "@", "x">>],
   [username |-> <<"b">>, email |-> <<"A", "@", "x">>],
   [username |-> <<"A">>, email |-> <<"b", "@", "x">>]}
CallIds == 1..MaxCalls

\* a call that has not started ("idle") or has returned ("done")
CallAt(pc) ==
  [pc |-> pc, username |-> <<>>, email |-> <<>>, users |-> <<>>, counter |-> 0, id |-> 0]

InitUsers ==
  /\ usersStore = <<>>
  /\ userCounterStore = 0
  /\ createCalls = [c \in CallIds |-> CallAt("idle")]
  /\ createResult = ""

\* users.find(user => user.email.toLowerCase() === email.toLowerCase())
ExistingUser(users, email) ==
  \E k \in 1..Len(users) : ToLowerCase(users[k].email) = ToLowerCase(email)

\* users.find(user => user.username.toLowerCase() === username.toLowerCase())
ExistingUsername(users, username) ==
  \E k \in 1..Len(users) : ToLowerCase(users[k].username) = ToLowerCase(username)

\* createUser(username, email, password) up to getNextUserId: getAllUsers and
\* the two checks, which return on a match
createUser(c, username, email) ==
  /\ createCalls[c].pc = "idle"
  /\ \A b \in CallIds : b < c => createCalls[b].pc # "idle"
  /\ LET users == usersStore
     IN IF ExistingUser(users, email)
        THEN /\ createCalls' = [createCalls EXCEPT ![c] = CallAt("done")]
             /\ createResult' = "An account with this email already exists"
        ELSE IF ExistingUsername(users, username)
        THEN /\ createCalls' = [createCalls EXCEPT ![c] = CallAt("done")]
             /\ createResult' = "Username already taken"
        ELSE /\ createCalls' =
                  [createCalls EXCEPT ![c] =
                     [pc |-> "getNextUserId", username |-> username, email |-> email,
                      users |-> users, counter |-> 0, id |-> 0]]
             /\ UNCHANGED createResult
  /\ UNCHANGED <<usersStore, userCounterStore>>

\* getNextUserId: storage.getItem(USER_COUNTER_KEY) resolves
GetNextUserIdRead(c) ==
  /\ createCalls[c].pc = "getNextUserId"
  /\ createCalls' = [createCalls EXCEPT ![c].pc = "setCounter",
                                        ![c].counter = userCounterStore]
  /\ UNCHANGED <<usersStore, userCounterStore, createResult>>

\* getNextUserId: storage.setItem(USER_COUNTER_KEY, nextId), return nextId
GetNextUserIdWrite(c) ==
  /\ createCalls[c].pc = "setCounter"
  /\ LET nextId == createCalls[c].counter + 1
     IN /\ userCounterStore' = nextId
        /\ createCalls' = [createCalls EXCEPT ![c].pc = "saveAllUsers",
                                              ![c].counter = 0, ![c].id = nextId]
  /\ UNCHANGED <<usersStore, createResult>>

\* users.push(newUser); saveAllUsers(users); return success (the password
\* hash, a field that nothing here reads, is left out of the record)
SaveAllUsers(c) ==
  /\ createCalls[c].pc = "saveAllUsers"
  /\ LET call == createCalls[c]
         newUser == [id |-> call.id, username |-> call.username,
                     email |-> ToLowerCase(call.email)]
     IN usersStore' = Append(call.users, newUser)
  /\ createCalls' = [createCalls EXCEPT ![c] = CallAt("done")]
  /\ createResult' = "User created successfully"
  /\ UNCHANGED userCounterStore

NextUsers ==
  /\ \E c \in CallIds :
       \/ \E form \in SignUps : createUser(c, form.username, form.email)
       \/ GetNextUserIdRead(c)
       \/ GetNextUserIdWrite(c)
       \/ SaveAllUsers(c)
  /\ UNCHANGED <<streakVars, notifVars, scorerVars, energyVars, blockVars, taskScreenVars,
                 deleteVars, timerVars>>

\* ========================================================== specifications
InitOther ==
  InitScorer /\ InitEnergy /\ InitBlocks /\ InitTaskScreen /\ InitDelete /\ InitTimer
  /\ InitUsers
Init == InitStreak /\ InitNotifIdle /\ InitOther
Next == NextStreak
Spec == Init /\ [][Next]_vars

InitService == InitStreak /\ InitNotif /\ InitOther
\* the task writers of both day-key formats with the streak evaluators
NextDayKey ==
  /\ \/ NextDay
     \/ AppLaunch
     \/ addTask
     \/ createTaskFromVoice
     \/ completeTaskFromVoice
     \/ createMicroTask
     \/ \E inv \in evals : TrackerEffectCheck(inv)
     \/ TrackerPoll
     \/ ScreenFocus
  /\ UNCHANGED <<notifVars, otherVars>>
SpecDayKey == Init /\ [][NextDayKey]_vars

SpecNotif == InitService /\ [][NextNotif]_vars

SpecScorer == Init /\ [][NextScorer]_vars

SpecEnergy == Init /\ [][NextEnergy]_vars

SpecBlocks == Init /\ [][NextBlocks]_vars

SpecTaskScreen == Init /\ [][NextTaskScreen]_vars

SpecDelete == InitService /\ [][NextDelete]_vars

SpecCleanup == InitService /\ [][NextCleanup]_vars

SpecTimer == Init /\ [][NextTimer]_vars

SpecUsers == Init /\ [][NextUsers]_vars

\* ======================================================== properties
\* an evaluator invocation of StreakTracker resumes, whose closure was made
\* today (its `today` is the current day)
TrackerStep ==
  \/ trackerMountDay = day /\ TrackerPoll
  \/ \E inv \in evals : inv.today = day /\ TrackerEffectCheck(inv)
\* the same for the evaluator of either component
EvaluatorStep ==
  \/ TrackerStep
  \/ screenMountDay \in {EmptyDate, day} /\ ScreenFocus
\* today counts as complete for the stored tasks
DayComplete == tasksStore.present /\ AllTasksCompleted(tasksStore.items, day)

\* C1: once the evaluator has updated the stored record on a day, a further
\* evaluator invocation on that day, with the tasks unchanged since, leaves
\* the stored record unchanged.
C1_Idempotent ==
  [][(quiet /\ EvaluatorStep) => streakStore' = streakStore]_vars

\* C2: the stored record always has currentStreak <= longestStreak.
C2_CurrentAtMostLongest ==
  streakStore.present
  => streakStore.data.currentStreak <= streakStore.data.longestStreak

C2_Witness ==
  /\ streakStore.present
  /\ streakStore.data.longestStreak >= 2
  /\ streakStore.data.currentStreak = 0
  /\ streakStore.data.lastCheckedDate = day

\* C3: when the stored record has lastCompletionDate = yesterday and
\* currentStreak = k and today counts as complete, an evaluator invocation
\* writes currentStreak = k + 1, longestStreak = max(longestStreak, k + 1) and
\* both dates = today.
C3_Continuity ==
  [][(EvaluatorStep /\ streakStore.present /\ DayComplete
        /\ streakStore.data.lastCompletionDate = day - 1)
     => streakStore'.data =
          [currentStreak |-> streakStore.data.currentStreak + 1,
           longestStreak |-> Max(streakStore.data.longestStreak,
                                 streakStore.data.currentStreak + 1),
           lastCheckedDate |-> day,
           lastCompletionDate |-> day]]_vars

\* C4: when today does not count as complete and the stored record was not
\* checked today, an evaluator invocation of StreakTracker sets currentStreak
\* to 0 and lastCheckedDate to today if lastCompletionDate is more than one
\* day before today, and leaves currentStreak unchanged if it is yesterday.
C4_GapReset ==
  [][(TrackerStep /\ streakStore.present /\ ~DayComplete
        /\ streakStore.data.lastCheckedDate # day)
     => /\ (streakStore.data.lastCompletionDate # EmptyDate
              /\ streakStore.data.lastCompletionDate < day - 1)
           => (streakStore'.data.currentStreak = 0
                 /\ streakStore'.data.lastCheckedDate = day)
        /\ streakStore.data.lastCompletionDate = day - 1
           => streakStore'.data.currentStreak = streakStore.data.currentStreak]_vars

\* C10: within one calendar day the evaluator changes the stored record at
\* most once.
C10_OneWritePerDay ==
  [][(evalWrote /\ EvaluatorStep) => UNCHANGED streakStore]_vars

\* the schedule requests of the current call, in the order they were made
Requests == {i \in 1..Len(schedLog) : schedLog[i].op = "schedule"}
Accepted == {i \in Requests : schedLog[i].ok}
Rejected == {i \in Requests : ~schedLog[i].ok}
\* the reminders the call produced: (type, instant) of every accepted request
Produced == {<<schedLog[i].type, schedLog[i].time>> : i \in Accepted}
\* the call has finished on a supported platform
CallFinished == schedPc = "done" /\ platformSupported

\* C5: when the deadline is not after `now`, the call makes no schedule
\* request and pushes no ScheduledNotification record, whatever the lead time
\* and the estimated duration.
C5_NoReminderForPastDeadline ==
  (schedPc \notin {"idle", "cancel"} /\ platformSupported
     /\ schedArgs.deadline <= schedNow)
  => (Requests = {} /\ schedPushed = <<>>)

C5_Witness ==
  /\ CallFinished
  /\ schedArgs.deadline = schedNow
  /\ HasDuration(schedArgs.estimatedDuration)
  /\ schedRead # {}

\* C6: with every request accepted, a future deadline d, duration D > 30 and
\* effective lead L with d - D - L > now yield exactly four reminders:
\* pre-start at d - D - L, halfway-reminder at d - D/2, final-warning at
\* d - 15 min and due-time at d.
C6_FourReminders ==
  LET d == schedArgs.deadline
      D == schedArgs.estimatedDuration
      L == schedReminder
  IN (CallFinished /\ Rejected = {} /\ D > 30
        /\ d - D * Minute - L * Minute > schedNow)
     => /\ Produced = {<<"pre-start", d - D * Minute - L * Minute>>,
                       <<"halfway-reminder", d - ((D * Minute) \div 2)>>,
                       <<"final-warning", d - 15 * Minute>>,
                       <<"due-time", d>>}
        /\ Cardinality(Accepted) = 4
        /\ Len(schedPushed) = 4

C6_Witness ==
  /\ CallFinished
  /\ Rejected = {}
  /\ schedArgs.deadline = 120 * Minute
  /\ schedArgs.estimatedDuration = 60
  /\ schedReminder = 15
  /\ schedNow = 0
  /\ Produced = {<<"pre-start", 45 * Minute>>, <<"halfway-reminder", 90 * Minute>>,
                 <<"final-warning", 105 * Minute>>, <<"due-time", 120 * Minute>>}

\* C7: with every request accepted, a future deadline d and no estimated
\* duration, exactly one pre-start reminder is produced, at d - lead, if
\* d - lead > now, and none otherwise; the only other reminders are due-time
\* and final-warning.
C7_SimpleReminder ==
  LET d == schedArgs.deadline
      L == schedReminder
      pre == {i \in Accepted : schedLog[i].type = "pre-start"}
  IN (CallFinished /\ Rejected = {} /\ ~HasDuration(schedArgs.estimatedDuration)
        /\ d > schedNow)
     => /\ IF d - L * Minute > schedNow
           THEN Cardinality(pre) = 1 /\ \A i \in pre : schedLog[i].time = d - L * Minute
           ELSE pre = {}
        /\ \A i \in Accepted : schedLog[i].type \in {"pre-start", "due-time", "final-warning"}

C7_Witness ==
  /\ CallFinished
  /\ Rejected = {}
  /\ ~HasDuration(schedArgs.estimatedDuration)
  /\ schedArgs.preStartMinutes = 0
  /\ <<"pre-start", schedArgs.deadline - schedReminder * Minute>> \in Produced

\* C8: after a call for a task that already had recorded notifications has
\* completed, the stored list holds for that task only the records this call
\* created, at most one per type.
C8_RebuildOnReschedule ==
  (CallFinished /\ Rejected = {}
     /\ \E n \in schedRead : n.taskId = schedArgs.taskId)
  => /\ \A n \in notifStore :
          n.taskId = schedArgs.taskId => n \in ToJSON(Range(schedPushed))
     /\ \A n, m \in notifStore :
          (n.taskId = m.taskId /\ n.type = m.type) => n = m

\* the reminder types whose instant qualifies (spec 4.1) for the current call
Qualifying ==
  LET d == schedArgs.deadline
      D == schedArgs.estimatedDuration
      L == schedReminder
      now == schedNow
  IN IF d <= now THEN {}
     ELSE {"due-time"}
          \cup (IF d - 15 * Minute > now THEN {"final-warning"} ELSE {})
          \cup (IF D > 0
                THEN (IF d - D * Minute - L * Minute > now /\ d - D * Minute > now
                      THEN {"pre-start"} ELSE {})
                     \cup (IF D > 30 /\ now < d - ((D * Minute) \div 2)
                           THEN {"halfway-reminder"} ELSE {})
                ELSE (IF d - L * Minute > now THEN {"pre-start"} ELSE {}))

\* C9: when the platform rejects the request for one reminder, every other
\* qualifying reminder is still requested and every accepted alert (still
\* held by the platform) has a stored record.
C9_PartialFailure ==
  (CallFinished /\ Cardinality(Rejected) = 1)
  => /\ \A type \in Qualifying : \E i \in Requests : schedLog[i].type = type
     /\ \A i \in Accepted :
          schedLog[i].handle \in pendingAlerts
          => \E n \in notifStore : n.notificationId = schedLog[i].handle

\* ------------------------------------------------------------ C11
\* tasks of the stored list whose date denotes the current day, in either of
\* the two stored representations
TasksDatedToday == {t \in tasksStore.items : t.date.day = day}
\* (a) some task is dated today and every task dated today is completed
EveryTaskOfTodayCompleted ==
  TasksDatedToday # {} /\ \A t \in TasksDatedToday : t.completed
\* (b) an incomplete task dated today has a completed task linked to it
IncompleteTaskHasCompletedLink ==
  \E p \in TasksDatedToday :
    ~p.completed /\ \E m \in tasksStore.items : m.linkedToTaskId = p.id /\ m.completed

\* C11: the evaluator's predicate for today holds exactly when (a) or (b)
\* holds, so never when no task is dated today; and an evaluator invocation
\* made today counts the day as complete (writes lastCompletionDate = today)
\* only if (a) or (b) holds.
C11_DayCompletion ==
  /\ [](tasksStore.present
         => (AllTasksCompleted(tasksStore.items, day)
               <=> (EveryTaskOfTodayCompleted \/ IncompleteTaskHasCompletedLink)))
  /\ [](TasksDatedToday = {} => ~AllTasksCompleted(tasksStore.items, day))
  /\ [][(EvaluatorStep /\ streakStore' # streakStore
           /\ streakStore'.data.lastCompletionDate = day)
          => (EveryTaskOfTodayCompleted \/ IncompleteTaskHasCompletedLink)]_vars

\* ------------------------------------------------------- C12 and C17
\* the positions of a suggestion list
Suggested(out) == {out[k] : k \in 1..Len(out)}
PositionIn(out, i) == CHOOSE k \in 1..Len(out) : out[k] = i
\* task i is ranked ahead of task u in the output
Ahead(out, i, u) ==
  /\ i \in Suggested(out)
  /\ u \in Suggested(out) => PositionIn(out, i) < PositionIn(out, u)
\* the tasks prop with the priority of task i raised to high
Raised(i) == [scorerTasks EXCEPT ![i].priority = "high"]
\* the incomplete low-priority tasks of the tasks prop
LowIncomplete ==
  {i \in 1..Len(scorerTasks) :
     ~scorerTasks[i].completed /\ scorerTasks[i].priority = "low"}

\* C12: raising an incomplete task's priority from low to high, all else
\* fixed, strictly increases its score, and the task is still ahead of every
\* unchanged task it was ahead of in the ranked output.  (The score of every
\* focus type and deadline is compared once per energy level and time of day,
\* in the states with an empty tasks prop.)
C12_PriorityMonotone ==
  /\ scorerTasks = <<>>
     => \A f \in FocusTypes, h \in DeadlineHours :
          Score(ScoredTask("high", f, h, FALSE), todayEnergyLevel, currentTimeContext)
            > Score(ScoredTask("low", f, h, FALSE), todayEnergyLevel, currentTimeContext)
  /\ \A i \in LowIncomplete :
       LET after == generateSmartSuggestions(Raised(i), todayEnergyLevel,
                                             currentTimeContext)
       IN /\ Score(Raised(i)[i], todayEnergyLevel, currentTimeContext)
               > Score(scorerTasks[i], todayEnergyLevel, currentTimeContext)
          /\ \A u \in (1..Len(scorerTasks)) \ {i} :
               Ahead(suggestedTasks, i, u) => Ahead(after, i, u)

\* a low-priority task behind an unchanged task overtakes it when raised
C12_Witness ==
  \E i \in LowIncomplete :
    \E u \in Suggested(suggestedTasks) \ {i} :
      /\ Ahead(suggestedTasks, u, i)
      /\ Ahead(generateSmartSuggestions(Raised(i), todayEnergyLevel,
                                        currentTimeContext), i, u)

\* the score as the claim states it: priority base and deadline bonus by
\* the time left, with the focus-type and time-of-day terms of the scorer
ClaimedScore(p, f, h, e, tc) ==
  (CASE p = "high" -> 3 [] p = "medium" -> 2 [] p = "low" -> 1)
  + FocusScore(ScoredTask(p, f, h, FALSE), e)
  + TimeScore(ScoredTask(p, f, h, FALSE), tc)
  + (IF h = NoDeadline THEN 0
     ELSE IF h <= HoursPerDay THEN 4
     ELSE IF h <= 3 * HoursPerDay THEN 2
     ELSE IF h <= 7 * HoursPerDay THEN 1
     ELSE 0)
ScoreNow(i) == Score(scorerTasks[i], todayEnergyLevel, currentTimeContext)
Incomplete == {i \in 1..Len(scorerTasks) : ~scorerTasks[i].completed}

\* C17: the suggestions are at most five, all incomplete, the incomplete tasks
\* of highest score in non-increasing score order, the score being priority
\* base + focus/energy match + time-of-day bonus + deadline-urgency bonus
\* (the score table is compared once per energy level and time of day, in
\* the states with an empty tasks prop).
C17_TopFive ==
  /\ Len(suggestedTasks) <= 5
  /\ Suggested(suggestedTasks) \subseteq Incomplete
  /\ Cardinality(Suggested(suggestedTasks)) = Len(suggestedTasks)
  /\ Len(suggestedTasks) = (IF Cardinality(Incomplete) < 5
                            THEN Cardinality(Incomplete) ELSE 5)
  /\ \A i \in Suggested(suggestedTasks) :
       \A u \in Incomplete \ Suggested(suggestedTasks) : ScoreNow(i) >= ScoreNow(u)
  /\ \A k \in 1..(Len(suggestedTasks) - 1) :
       ScoreNow(suggestedTasks[k]) >= ScoreNow(suggestedTasks[k + 1])
  /\ scorerTasks = <<>>
     => \A p \in Priorities, f \in FocusTypes, h \in DeadlineHours :
          Score(ScoredTask(p, f, h, FALSE), todayEnergyLevel, currentTimeContext)
            = ClaimedScore(p, f, h, todayEnergyLevel, currentTimeContext)

\* more than five incomplete tasks of different scores
C17_Witness ==
  /\ Cardinality(Incomplete) > 5
  /\ Len(suggestedTasks) = 5
  /\ ScoreNow(suggestedTasks[1]) > ScoreNow(suggestedTasks[5])
  /\ \E u \in Incomplete \ Suggested(suggestedTasks) :
       ScoreNow(u) < ScoreNow(suggestedTasks[5])

\* ------------------------------------------------------- C13 and C14
\* the calendar days that have an entry in the stored log
LoggedDays == {energyLogStore[k].date.day : k \in 1..Len(energyLogStore)}
\* a step that writes the stored log (a call of logEnergyLevel) or shows
\* today as logged with another level than before
LogStep == energyLogStore' # energyLogStore \/ (todayLogged' /\ selectedEnergy' # selectedEnergy)

\* C13: the stored log never holds two entries of one calendar date, and
\* after a call of logEnergyLevel the entry of the call's date holds the
\* level passed to the call (which the call also keeps in selectedEnergy).
C13_OneEntryPerDate ==
  /\ [](Cardinality(LoggedDays) = Len(energyLogStore))
  /\ [][LogStep
        => /\ todayLogged'
           /\ \E k \in 1..Len(energyLogStore') :
                energyLogStore'[k] = [date |-> ToISODate(logDay),
                                      energy |-> selectedEnergy']]_vars

\* today's entry holds the level tapped last, next to entries of other days
C13_Witness ==
  /\ Len(energyLogStore) >= 2
  /\ todayLogged
  /\ selectedEnergy = 5
  /\ \E k \in 1..Len(energyLogStore) :
       energyLogStore[k] = [date |-> ToISODate(logDay), energy |-> 5]

\* C14: the stored log never holds more than 30 entries, and logging on the
\* day after 30 consecutive logged days leaves exactly the 30 most recent
\* dates.
C14_Retention ==
  /\ [](Len(energyLogStore) <= 30)
  /\ [][(/\ LogStep
         /\ Len(energyLogStore) = 30
         /\ LoggedDays = (logDay - 30)..(logDay - 1))
        => LoggedDays' = (logDay - 29)..logDay]_vars

\* ------------------------------------------------------------ C15
\* the ids of the stored tasks
StoredIds == {t.id : t \in tasksStore.items}
\* the step stores exactly one new task m, a micro-task of today linked to a
\* stored parent, sets the parent's hasMicroTaskActive and keeps every other
\* task; Inherits(m, parent) relates the micro-task's fields to the parent's
MicroTaskCreated(Inherits(_, _)) ==
  \E m \in tasksStore'.items :
    \E parent \in tasksStore.items :
      /\ m.id \notin StoredIds
      /\ m.isMicroTask
      /\ ~m.completed
      /\ m.linkedToTaskId = parent.id
      /\ m.date = ToDateString(day)
      /\ Inherits(m, parent)
      /\ tasksStore'.items
           = (tasksStore.items \ {parent})
             \cup {[parent EXCEPT !.hasMicroTaskActive = TRUE], m}
InheritsRest(m, parent) ==
  /\ m.deadline = parent.deadline
  /\ m.importance = parent.importance
  /\ m.urgency = parent.urgency
  /\ m.focusType = parent.focusType
InheritsAll(m, parent) ==
  m.priority = parent.priority /\ InheritsRest(m, parent)
InheritsWithDefault(m, parent) ==
  /\ m.priority = (IF parent.priority = NoPriority THEN "medium" ELSE parent.priority)
  /\ InheritsRest(m, parent)

DigitValue(c) == (CHOOSE k \in 1..10 : DigitChars[k] = c) - 1
AllDigits(s) == \A k \in 1..Len(s) : IsDigit(s[k])
RECURSIVE NumberValue(_)
NumberValue(s) ==
  IF s = <<>> THEN 0
  ELSE 10 * NumberValue(SubSeq(s, 1, Len(s) - 1)) + DigitValue(s[Len(s)])
IsTwelveHourTime(text) ==
  LET s == Trim(text)
      colons == {k \in 1..Len(s) : s[k] = ":"}
  IN /\ Cardinality(colons) = 1
     /\ LET c == CHOOSE k \in colons : TRUE
            hour == SubSeq(s, 1, c - 1)
            minute == SubSeq(s, c + 1, c + 2)
            rest == From(s, c + 3)
            period == IF rest # <<>> /\ IsSpace(Head(rest)) THEN Tail(rest) ELSE rest
        IN /\ Len(hour) \in {1, 2} /\ AllDigits(hour) /\ NumberValue(hour) \in 1..12
           /\ Len(minute) = 2 /\ AllDigits(minute) /\ NumberValue(minute) \in 0..59
           /\ [k \in 1..Len(period) |-> ToUpperCase(period[k])] \in Periods
FormAccepted ==
  /\ newTimeBlock.title # ""
  /\ IsTwelveHourTime(newTimeBlock.startTime)
  /\ IsTwelveHourTime(newTimeBlock.endTime)
\* C16: the stored timeBlocks list changes only when the form holds a title and
\* a start and an end time that both read as 12-hour "H:MM AM/PM" times; an
\* addTimeBlock on any other form leaves the stored list unchanged and shows
\* the fill-in or the time-format alert.
C16_TimeBlockValidation ==
  /\ [][timeBlocksStore' # timeBlocksStore => FormAccepted]_vars
  /\ [][(blockAlert' # blockAlert /\ ~FormAccepted) =>
          /\ timeBlocksStore' = timeBlocksStore
          /\ blockAlert' \in {FillInAllFields, ValidTimeFormat}]_vars
  /\ [](blockAlert = BlockCreated => timeBlocksStore # <<>>)
\* a block was stored, and a later attempt with an hour of 13 was turned down
C16_Witness ==
  /\ timeBlocksStore # <<>>
  /\ IsTwelveHourTime(timeBlocksStore[1].startTime)
  /\ blockAlert = ValidTimeFormat
  /\ newTimeBlock.title # ""
  /\ newTimeBlock.startTime = <<"1", "3", ":", "0", "0", " ", "A", "M">>
  /\ IsTwelveHourTime(newTimeBlock.endTime)

\* ---- C18
\* the stored streak is longer than the number of calendar days that can have
\* been counted (day 1 is the first day of the run): some day was counted twice
DoubleIncremented ==
  /\ streakStore.present
  /\ streakStore.data.currentStreak > Max(streakStore.data.lastCompletionDate, 0)
\* two invocations passed the "not yet counted today" gate today: StreakScreen
\* and StreakTracker each hold a record counted today, with different streaks
TwoPassedGate ==
  /\ screenState.lastCompletionDate = day /\ screenState.currentStreak >= 1
  /\ trackerState.lastCompletionDate = day /\ trackerState.currentStreak >= 1
  /\ screenState.currentStreak # trackerState.currentStreak
ProducedAt(type) == {p[2] : p \in {q \in Produced : q[1] = type}}
\* C19: with every request accepted, a future deadline d and a duration
\* D > 30, the halfway-reminder is produced, at d - D + D/2, if and only if
\* now < d - D + D/2 < d, whether or not a pre-start reminder was produced.
C19_Halfway ==
  LET d == schedArgs.deadline
      D == schedArgs.estimatedDuration
      halfway == d - D * Minute + ((D * Minute) \div 2)
  IN (CallFinished /\ Rejected = {} /\ d > schedNow /\ D > 30)
     => ProducedAt("halfway-reminder")
          = (IF schedNow < halfway /\ halfway < d THEN {halfway} ELSE {})

PreviouslyRecorded ==
  {n.notificationId : n \in {m \in schedRead : m.taskId = schedArgs.taskId}}
NotYetCounted == DayComplete /\ streakStore.data.lastCompletionDate # day
\* C22: when today counts as complete and has not been counted yet, an
\* evaluator invocation sets the stored currentStreak to the previous value
\* plus one if lastCompletionDate is yesterday or currentStreak is 0, and to
\* exactly 1 otherwise.
C22_CompletionAfterGap ==
  [][(EvaluatorStep /\ NotYetCounted)
     => streakStore'.data.currentStreak =
          (IF \/ streakStore.data.lastCompletionDate = day - 1
              \/ streakStore.data.currentStreak = 0
           THEN streakStore.data.currentStreak + 1
           ELSE 1)]_vars

\* ---- C23
\* C23: every reader that filters the stored tasks by day takes exactly the
\* tasks whose date denotes today, whichever representation wrote the date.
C23_DayKeyNormalization ==
  tasksStore.present
  => /\ TodayTasks(tasksStore.items, day) = TasksDatedToday
     /\ TodayTasksList(tasksStore.items, day) = TasksDatedToday
     /\ \A eastOfGreenwich \in BOOLEAN :
          LoadedTodayTasks(tasksStore.items, day, eastOfGreenwich) = TasksDatedToday

\* ---- C24
\* C24: toggleTask changes only the completion flag of the toggled task in the
\* stored list: every other stored task is still stored, unchanged, after it.
C24_ToggleFrame ==
  [][\A taskId \in 1..MaxTasks :
       toggleTask(taskId)
       => \A t \in tasksStore.items :
            IF t.id = taskId
            THEN [t EXCEPT !.completed = ~t.completed] \in tasksStore'.items
            ELSE t \in tasksStore'.items]_vars

\* ---- C25
\* an evaluator invocation from any entry point resumes and writes the record
EvaluatorWrite ==
  /\ \/ TrackerPoll
     \/ \E inv \in evals : TrackerEffectCheck(inv)
     \/ ScreenFocus
  /\ streakStore' # streakStore
\* what an evaluator computes today from the record as it is stored
FromStoredRecord ==
  {r.data : r \in {c \in {TrackerCheck(streakStore.data, day, day, tasksStore.items),
                           ScreenCheck(streakStore.data, day, day, tasksStore.items)} :
                     c.write}}
\* C25: whatever the entry point, an evaluator write never lowers the stored
\* longestStreak, and the record it writes is the one computed from the record
\* as it is stored, not from an out-of-date snapshot of it.
C25_NoStaleSnapshot ==
  [][EvaluatorWrite
     => /\ streakStore'.data.longestStreak >= streakStore.data.longestStreak
        /\ streakStore'.data \in FromStoredRecord]_vars

\* ---- C26
\* the handles of the alerts the platform accepted during the current call and
\* still holds
AcceptedAlerts == {schedLog[i].handle : i \in Accepted} \cap pendingAlerts
\* C26: whenever a scheduleTaskNotifications call has finished, normally or
\* after a rejected request, every alert accepted during the call has a stored
\* record with its handle under the task id of the call.
C26_NoOrphanAlerts ==
  CallFinished
  => \A handle \in AcceptedAlerts :
       \E n \in notifStore :
         n.notificationId = handle /\ n.taskId = schedArgs.taskId

\* ---- C27
\* C27: once deleteTask has completed for a task, the stored list of scheduled
\* notifications holds no record for that task id and no handle that was
\* recorded for it is still held by the platform, whatever call was running.
C27_DeleteLeavesNothing ==
  /\ \A n \in notifStore : n.taskId \notin deletedTasks
  /\ deletedHandles \cap pendingAlerts = {}

\* ---- C28
\* C28: cleanupExpiredNotifications leaves in the stored list exactly the
\* records whose scheduled instant is after the current time.
C28_CleanupKeepsFuture ==
  [][cleanupExpiredNotifications
     => notifStore' = {n \in notifStore : n.scheduledTime.t > clock}]_vars

\* C29: pauseTimer leaves timeLeft unchanged (so that startTimer after it
\* resumes the countdown from the time that was left at the pause)
C29_PauseKeepsTimeLeft ==
  [][pauseTimer => timeLeft' = timeLeft]_vars

\* C30: after any createUser calls, interleaved or not, no two stored users
\* share an email or a username compared case-insensitively, or an id
SameEmail(u, v) == ToLowerCase(u.email) = ToLowerCase(v.email)
SameUsername(u, v) == ToLowerCase(u.username) = ToLowerCase(v.username)
C30_UniqueUsers ==
  \A i, j \in 1..Len(usersStore) :
    i # j => /\ ~SameEmail(usersStore[i], usersStore[j])
             /\ ~SameUsername(usersStore[i], usersStore[j])
             /\ usersStore[i].id # usersStore[j].id

====
